---- MODULE Spec2Model ----
(***************************************************************************)
(* Topic coverage and adaptive-difficulty engine of interview_coach:       *)
(* topic catalog and plan builder, progress tracker, topic selector,       *)
(* difficulty adjuster, stop evaluator and the interview loop that drives  *)
(* them.                                                                   *)
(*                                                                         *)
(* Conventions.  Python floats (avg_score, coverage_score, the three       *)
(* coverage ratios, the thresholds) are exact rationals <<n, d>> in lowest *)
(* terms with d > 0; every arithmetic step of the source is carried out on *)
(* them in the order the source carries it out.  Strings that the source   *)
(* lower-cases before comparing (grade) are kept lower-cased.  A topic     *)
(* carries id, priority, min_questions, status and coverage_score; name    *)
(* and tags only feed generated text and are left out.                     *)
(***************************************************************************)
EXTENDS Integers, Sequences, FiniteSets, TLC

VARIABLES
    plan,       \* TopicPlan: grade, topics (with status, coverage_score), rules
    tracker,    \* ProgressTracker
    state,      \* SessionState fields the engine reads and writes
    selection,  \* last TopicSelection produced (NoSelection before the first)
    current_turn, \* current_turn of the last select_next_topic call (0: none)
    analysis,   \* last ObserverAnalysis handed to the engine
    stop_reason,\* last result of _stop_reason ("none" when it returned None)
    loop,       \* locals of run_interview: turn_id, current_question_difficulty,
                \* stop_reason_msg
    calls,      \* arguments of the record_progress calls the call-log driver made
    pc          \* position of the driver

vars ==
    <<plan, tracker, state, selection, current_turn, analysis, stop_reason, loop, calls, pc>>

-----------------------------------------------------------------------------
(* Bounds of the model *)

\* number of record_progress calls made by the tracker driver
MaxCalls == 4

\* how far beyond the last recorded turn the selector is queried
TurnSlack == 3

-----------------------------------------------------------------------------
(* Exact rational arithmetic standing in for float arithmetic *)

RECURSIVE GCD(_, _)
GCD(a, b) == IF b = 0 THEN a ELSE GCD(b, a % b)

Abs(x) == IF x < 0 THEN -x ELSE x

Rat(n, d) ==
    LET g == GCD(Abs(n), Abs(d))
        s == IF d < 0 THEN -1 ELSE 1
    IN  <<(s * n) \div g, (s * d) \div g>>

RInt(i) == <<i, 1>>
RAdd(a, b) == Rat(a[1] * b[2] + b[1] * a[2], a[2] * b[2])
RMul(a, b) == Rat(a[1] * b[1], a[2] * b[2])
RDiv(a, b) == Rat(a[1] * b[2], a[2] * b[1])
RLe(a, b) == a[1] * b[2] <= b[1] * a[2]
RLt(a, b) == a[1] * b[2] < b[1] * a[2]
RGe(a, b) == RLe(b, a)
RMin(a, b) == IF RLe(a, b) THEN a ELSE b
RMax(a, b) == IF RLe(a, b) THEN b ELSE a

RECURSIVE RSum(_)
RSum(s) == IF s = <<>> THEN RInt(0) ELSE RAdd(Head(s), RSum(Tail(s)))

Min(a, b) == IF a <= b THEN a ELSE b
Max(a, b) == IF a <= b THEN b ELSE a

-----------------------------------------------------------------------------
(* Topic catalog *)

TopicDef(id, priority, min_questions) ==
    [id |-> id, priority |-> priority, min_questions |-> min_questions]

BACKEND_BASE_TOPICS ==
    << TopicDef("python_basics", "must", 2),
       TopicDef("oop_principles", "must", 2),
       TopicDef("http_rest", "must", 2),
       TopicDef("db_sql_basics", "must", 2),
       TopicDef("git_basics", "must", 2),
       TopicDef("django_framework", "must", 2),
       TopicDef("debug_testing", "must", 2) >>

BACKEND_MIDDLE_TOPICS ==
    << TopicDef("system_design", "must", 2),
       TopicDef("concurrency", "must", 2),
       TopicDef("performance", "nice", 1),
       TopicDef("caching", "nice", 1),
       TopicDef("security", "nice", 1),
       TopicDef("ci_cd", "nice", 1) >>

BACKEND_SENIOR_TOPICS ==
    << TopicDef("system_design_advanced", "must", 2),
       TopicDef("concurrency_deep", "must", 2),
       TopicDef("reliability", "nice", 1) >>

get_backend_topics_for_grade(g) ==
    BACKEND_BASE_TOPICS
        \o (IF g \in {"middle", "senior"} THEN BACKEND_MIDDLE_TOPICS ELSE <<>>)
        \o (IF g = "senior" THEN BACKEND_SENIOR_TOPICS ELSE <<>>)

-----------------------------------------------------------------------------
(* Data model *)

\* Topic(**t): status and coverage_score take their defaults
Topic(t) ==
    [id |-> t.id, priority |-> t.priority, min_questions |-> t.min_questions,
     status |-> "pending", coverage_score |-> RInt(0)]

TopicRules(target, max_turns, cooldown) ==
    [target_must_coverage |-> target, max_total_turns |-> max_turns,
     topic_cooldown |-> cooldown]

TopicStats == [asked |-> 0, avg_score |-> RInt(0), last_turn |-> -1]

\* coverage_threshold default of ProgressTracker
DefaultCoverageThreshold == Rat(7, 10)

\* ProgressTracker.from_plan
from_plan(p) ==
    [asked_questions |-> <<>>,
     topic_stats |-> [id \in {p.topics[i].id : i \in 1..Len(p.topics)} |-> TopicStats],
     overall_coverage |-> RInt(0),
     must_coverage |-> RInt(0),
     nice_coverage |-> RInt(0),
     coverage_threshold |-> DefaultCoverageThreshold]

\* tracker.topic_stats.get(topic_id, TopicStats())
StatsOf(tr, id) ==
    IF id \in DOMAIN tr.topic_stats THEN tr.topic_stats[id] ELSE TopicStats

-----------------------------------------------------------------------------
(* Plan builder *)

\* RulesForGrade with every grade taking the last branch
RulesForGrade_last_branch(grade_l) == TopicRules(Rat(92, 100), 16, 2)

RulesForGrade(grade_l) ==
    IF grade_l = "junior" THEN TopicRules(Rat(85, 100), 10, 1)
    ELSE IF grade_l = "middle" THEN TopicRules(Rat(90, 100), 14, 2)
    ELSE TopicRules(Rat(92, 100), 16, 2)

\* language/framework inference only renames topics and rewrites tags; the
\* framework hit sets django_framework to must / max(min_questions, 2), which
\* the catalog already gives it
build_topic_plan(grade_l) ==
    LET base_topics == get_backend_topics_for_grade(grade_l)
    IN  [grade |-> grade_l,
         topics |-> [i \in 1..Len(base_topics) |-> Topic(base_topics[i])],
         rules |-> RulesForGrade(grade_l)]

\* a plan cut down to the topics of a focus set, in catalog order
RestrictPlan(p, focus) ==
    [p EXCEPT !.topics = SelectSeq(p.topics, LAMBDA t : t.id \in focus)]

-----------------------------------------------------------------------------
(* Progress tracker *)

\* _normalize_score without the clamp to 0..4
_normalize_score_unclamped(score) == RDiv(RInt(score), RInt(4))

_normalize_score(score) == RDiv(RMax(RInt(0), RMin(RInt(score), RInt(4))), RInt(4))

\* TopicCoverage without the cap of completion at 1
TopicCoverage_uncapped(topic, stats) ==
    LET completion == Rat(stats.asked, Max(topic.min_questions, 1))
    IN  RMul(completion, RMax(RInt(0), RMin(stats.avg_score, RInt(1))))

\* completion and coverage of one topic, recalc_coverage lines 229-230
TopicCoverage(topic, stats) ==
    LET completion == RMin(Rat(stats.asked, Max(topic.min_questions, 1)), RInt(1))
    IN  RMul(completion, RMax(RInt(0), RMin(stats.avg_score, RInt(1))))

\* TopicStatus recomputed from the counts alone, forgetting an earlier covered
TopicStatus_recomputed(topic, stats, threshold) ==
    IF stats.asked >= topic.min_questions /\ RGe(stats.avg_score, threshold)
    THEN "covered"
    ELSE IF stats.asked > 0 THEN "in_progress" ELSE "pending"

\* TopicStatus asking for more than min_questions answers
TopicStatus_late(topic, stats, threshold) ==
    LET s1 == IF stats.asked > 0 /\ topic.status = "pending"
              THEN "in_progress" ELSE topic.status
    IN  IF s1 # "covered" /\ stats.asked > topic.min_questions
           /\ RGe(stats.avg_score, threshold)
        THEN "covered" ELSE s1

\* status of one topic after recalc_coverage, lines 232-235
TopicStatus(topic, stats, threshold) ==
    LET s1 == IF stats.asked > 0 /\ topic.status = "pending"
              THEN "in_progress" ELSE topic.status
    IN  IF s1 # "covered" /\ stats.asked >= topic.min_questions
           /\ RGe(stats.avg_score, threshold)
        THEN "covered" ELSE s1

\* Mean dividing by one more than the number of scores
Mean_one_more(scores) == RDiv(RSum(scores), RInt(Len(scores) + 1))

\* mean of a non-empty list of scores
Mean(scores) == RDiv(RSum(scores), RInt(Len(scores)))

recalc_coverage(p, tr) ==
    LET topics == [i \in 1..Len(p.topics) |->
                     LET t == p.topics[i]
                         st == StatsOf(tr, t.id)
                     IN  [t EXCEPT !.coverage_score = TopicCoverage(t, st),
                                   !.status = TopicStatus(t, st, tr.coverage_threshold)]]
        cov(s) == [i \in 1..Len(s) |-> s[i].coverage_score]
        must_scores == cov(SelectSeq(topics, LAMBDA t : t.priority = "must"))
        nice_scores == cov(SelectSeq(topics, LAMBDA t : t.priority # "must"))
        all_scores == must_scores \o nice_scores
    IN  [plan |-> [p EXCEPT !.topics = topics],
         tracker |-> [tr EXCEPT
            !.must_coverage = IF must_scores # <<>> THEN Mean(must_scores) ELSE @,
            !.nice_coverage = IF nice_scores # <<>> THEN Mean(nice_scores) ELSE @,
            !.overall_coverage = IF all_scores # <<>> THEN Mean(all_scores) ELSE @]]

\* stats of the asked topic after lines 258-262
UpdatedStats(old, turn_id, score) ==
    LET asked == old.asked + 1
    IN  [asked |-> asked,
         avg_score |-> RDiv(RAdd(RMul(old.avg_score, RInt(asked - 1)),
                                 _normalize_score(score)),
                            RInt(asked)),
         last_turn |-> turn_id]

\* record_progress with one TopicStats object shared by all topics
record_progress_shared_stats(p, tr, topic_id, turn_id, score, difficulty) ==
    LET old == StatsOf(tr, topic_id)
        ids == DOMAIN tr.topic_stats \cup {topic_id}
        stats == [id \in ids |-> UpdatedStats(old, turn_id, score)]
        tr1 == [tr EXCEPT
                  !.topic_stats = stats,
                  !.asked_questions = Append(@, [turn_id |-> turn_id,
                                                 topic_id |-> topic_id,
                                                 difficulty |-> difficulty])]
    IN  recalc_coverage(p, tr1)

record_progress(p, tr, topic_id, turn_id, score, difficulty) ==
    LET old == StatsOf(tr, topic_id)
        ids == DOMAIN tr.topic_stats \cup {topic_id}
        stats == [id \in ids |-> IF id = topic_id
                                 THEN UpdatedStats(old, turn_id, score)
                                 ELSE tr.topic_stats[id]]
        tr1 == [tr EXCEPT
                  !.topic_stats = stats,
                  !.asked_questions = Append(@, [turn_id |-> turn_id,
                                                 topic_id |-> topic_id,
                                                 difficulty |-> difficulty])]
    IN  recalc_coverage(p, tr1)

-----------------------------------------------------------------------------
(* Topic selector *)

\* on_cooldown ending one turn early
on_cooldown_short(topic, stats, cooldown, turn) ==
    /\ topic.status = "covered"
    /\ cooldown > 0
    /\ stats.last_turn >= 0
    /\ (turn - stats.last_turn) < cooldown

on_cooldown(topic, stats, cooldown, turn) ==
    /\ topic.status = "covered"
    /\ cooldown > 0
    /\ stats.last_turn >= 0
    /\ (turn - stats.last_turn) <= cooldown

\* _eligible_topics that filters nothing
_eligible_topics_unfiltered(p, tr, turn) == p.topics

_eligible_topics(p, tr, turn) ==
    SelectSeq(p.topics,
              LAMBDA t : ~on_cooldown(t, StatsOf(tr, t.id), p.rules.topic_cooldown, turn))

SeniorPreferredIds ==
    << "system_design_advanced", "concurrency_deep", "system_design",
       "concurrency", "performance", "reliability", "security" >>

MiddlePreferredIds == << "system_design", "concurrency", "http_rest", "db_sql_basics" >>

\* first element of a list of matches, as a sequence of length <= 1
FirstOf(hits) == IF hits = <<>> THEN <<>> ELSE <<Head(hits)>>

\* _preferred_start_topic applied at every turn
_preferred_start_topic_any_turn(p, eligible, turn) ==
    IF p.grade \notin {"senior", "middle"} THEN <<>>
    ELSE LET preferred_ids == IF p.grade = "senior" THEN SeniorPreferredIds
                              ELSE MiddlePreferredIds
             Match(pid, t) == t.id = pid /\ t.status \in {"pending", "in_progress"}
             pids == FirstOf(SelectSeq(preferred_ids,
                        LAMBDA pid : \E i \in 1..Len(eligible) : Match(pid, eligible[i])))
         IN  IF pids = <<>> THEN <<>>
             ELSE FirstOf(SelectSeq(eligible, LAMBDA t : Match(pids[1], t)))

\* None is <<>>, a topic t is <<t>>
_preferred_start_topic(p, eligible, turn) ==
    IF turn # 1 THEN <<>>
    ELSE IF p.grade \notin {"senior", "middle"} THEN <<>>
    ELSE LET preferred_ids == IF p.grade = "senior" THEN SeniorPreferredIds
                              ELSE MiddlePreferredIds
             Match(pid, t) == t.id = pid /\ t.status \in {"pending", "in_progress"}
             pids == FirstOf(SelectSeq(preferred_ids,
                        LAMBDA pid : \E i \in 1..Len(eligible) : Match(pid, eligible[i])))
         IN  IF pids = <<>> THEN <<>>
             ELSE FirstOf(SelectSeq(eligible, LAMBDA t : Match(pids[1], t)))

NeverAskedSentinel == -999

\* _topic_sort_key with avg_score ahead of the completion ratio
_topic_sort_key_score_first(topic, tr) ==
    LET stats == StatsOf(tr, topic.id)
    IN  << RInt(IF topic.priority = "must" THEN 0 ELSE 1),
           stats.avg_score,
           Rat(stats.asked, Max(topic.min_questions, 1)),
           RInt(IF stats.last_turn >= 0 THEN stats.last_turn ELSE NeverAskedSentinel) >>

_topic_sort_key(topic, tr) ==
    LET stats == StatsOf(tr, topic.id)
    IN  << RInt(IF topic.priority = "must" THEN 0 ELSE 1),
           Rat(stats.asked, Max(topic.min_questions, 1)),
           stats.avg_score,
           RInt(IF stats.last_turn >= 0 THEN stats.last_turn ELSE NeverAskedSentinel) >>

\* tuple comparison a < b, as Python compares tuples
RECURSIVE KeyLess(_, _)
KeyLess(a, b) ==
    IF a = <<>> \/ b = <<>> THEN a = <<>> /\ b # <<>>
    ELSE IF Head(a) = Head(b) THEN KeyLess(Tail(a), Tail(b))
    ELSE RLt(Head(a), Head(b))

\* sorted(pool, key=...): stable, ascending
RECURSIVE InsertSorted(_, _, _)
InsertSorted(t, sorted, tr) ==
    IF sorted = <<>> THEN <<t>>
    ELSE IF KeyLess(_topic_sort_key(t, tr), _topic_sort_key(Head(sorted), tr))
         THEN <<t>> \o sorted
         ELSE <<Head(sorted)>> \o InsertSorted(t, Tail(sorted), tr)

RECURSIVE SortPool(_, _)
SortPool(pool, tr) ==
    IF pool = <<>> THEN <<>>
    ELSE InsertSorted(pool[Len(pool)], SortPool(SubSeq(pool, 1, Len(pool) - 1), tr), tr)

\* suggest_difficulty raising the level only above 0.75
suggest_difficulty_strict(base_difficulty, stats) ==
    IF stats.asked = 0 THEN base_difficulty
    ELSE IF RLt(Rat(75, 100), stats.avg_score) THEN Min(5, base_difficulty + 1)
    ELSE IF RLe(stats.avg_score, Rat(4, 10)) THEN Max(1, base_difficulty - 1)
    ELSE base_difficulty

suggest_difficulty(base_difficulty, stats) ==
    IF stats.asked = 0 THEN base_difficulty
    ELSE IF RGe(stats.avg_score, Rat(75, 100)) THEN Min(5, base_difficulty + 1)
    ELSE IF RLe(stats.avg_score, Rat(4, 10)) THEN Max(1, base_difficulty - 1)
    ELSE base_difficulty

TopicSelection(topic, reason, desired_difficulty) ==
    [topic |-> topic, reason |-> reason, desired_difficulty |-> desired_difficulty]

\* eligible list after the fallback of lines 333-334
EligibleOrAll(p, tr, turn) ==
    LET eligible == _eligible_topics(p, tr, turn)
    IN  IF eligible = <<>> THEN p.topics ELSE eligible

\* CandidatePool whose gate keeps the nice topics instead of the must topics
CandidatePool_gate_on_nice(p, tr, eligible) ==
    LET must_need == RLt(tr.must_coverage, p.rules.target_must_coverage)
        candidates ==
            SelectSeq(eligible,
                      LAMBDA t : t.priority = "nice" /\ t.status \in {"pending", "in_progress"})
    IN  IF must_need /\ candidates # <<>> THEN candidates ELSE eligible

\* candidate pool of lines 343-347
CandidatePool(p, tr, eligible) ==
    LET must_need == RLt(tr.must_coverage, p.rules.target_must_coverage)
        must_candidates ==
            SelectSeq(eligible,
                      LAMBDA t : t.priority = "must" /\ t.status \in {"pending", "in_progress"})
    IN  IF must_need /\ must_candidates # <<>> THEN must_candidates ELSE eligible

\* the reason string is kept as its leading words
select_next_topic(p, tr, turn, base_difficulty) ==
    LET eligible == EligibleOrAll(p, tr, turn)
        preferred == _preferred_start_topic(p, eligible, turn)
    IN  IF preferred # <<>>
        THEN TopicSelection(preferred[1], "start bias",
                            suggest_difficulty(base_difficulty, StatsOf(tr, preferred[1].id)))
        ELSE LET chosen == SortPool(CandidatePool(p, tr, eligible), tr)[1]
             IN  TopicSelection(chosen, "must coverage",
                                suggest_difficulty(base_difficulty, StatsOf(tr, chosen.id)))

NoTopic ==
    [id |-> "none", priority |-> "none", min_questions |-> 0,
     status |-> "none", coverage_score |-> RInt(0)]

NoSelection == TopicSelection(NoTopic, "none", 0)

-----------------------------------------------------------------------------
(* Session state *)

\* SessionState as run_interview builds it (lines 421-430): the schema's
\* defaults, max_turns and coverage_threshold copied from the plan and the
\* tracker; topic_plan and progress are the variables plan and tracker.
\* history holds the turn_id of each registered ConversationTurn;
\* has_progress says that state.progress is not None.
SessionState(grade_l, p, tr) ==
    [grade |-> grade_l,
     difficulty |-> 2,
     history |-> <<>>,
     recent_scores |-> <<>>,
     hallucination_detected |-> FALSE,
     current_topic_id |-> "none",
     honesty_count |-> 0,
     has_progress |-> TRUE,
     coverage_threshold |-> tr.coverage_threshold,
     max_turns |-> p.rules.max_total_turns]

ObserverAnalysis(answer_score, difficulty_delta) ==
    [answer_score |-> answer_score, difficulty_delta |-> difficulty_delta]

NoAnalysis == ObserverAnalysis(0, 0)

\* what the heuristics of logic.py read out of a user message: a stop or a
\* progress phrase, a question about the company or the role, a role-reversal
\* hint, an off-topic hint, a prompt-injection hint, no overlap with the topic
\* at hand, an absolute claim, an admission of not knowing
Message(stop, progress, role_request, role_hint, off_topic_hint, injection, context_off_topic, controversial, honesty) ==
    [stop |-> stop, progress |-> progress, role_request |-> role_request,
     role_hint |-> role_hint, off_topic_hint |-> off_topic_hint,
     injection |-> injection, context_off_topic |-> context_off_topic,
     controversial |-> controversial, honesty |-> honesty]

\* user_message before the first message is read: no phrase, no flag
NoMessage == Message(FALSE, FALSE, FALSE, FALSE, FALSE, FALSE, FALSE, FALSE, FALSE)

\* locals of run_interview before the loop is entered
NoLoop ==
    [turn_id |-> 0, current_question_difficulty |-> 0, stop_reason_msg |-> "none",
     confidence_score |-> -1, message |-> NoMessage,
     observer_calls |-> 0, parsed |-> TRUE,
     detected_intent |-> "none", correctness |-> "none", topic_id |-> "none"]

\* answer_score: Field(ge=0, le=4); difficulty_delta: Field(ge=-1, le=1)
AnswerScores == 0..4
DifficultyDeltas == -1..1

-----------------------------------------------------------------------------
(* Difficulty adjuster *)

\* length of the score history update_difficulty keeps
RecentScoresKept == 3

\* s[-n:]
LastN(s, n) == SubSeq(s, Max(1, Len(s) - n + 1), Len(s))

\* ForcedDelta that only raises a delta, never lowers it
ForcedDelta_no_deescalation(scores, requested) ==
    IF Len(scores) >= 2 /\ scores[Len(scores)] >= 3 /\ scores[Len(scores) - 1] >= 3
    THEN Max(requested, 1) ELSE requested

\* ForcedDelta that only lowers a delta, never raises it
ForcedDelta_no_escalation(scores, requested) ==
    IF Len(scores) >= 2 /\ scores[Len(scores)] <= 1 /\ scores[Len(scores) - 1] <= 1
    THEN Min(requested, -1) ELSE requested

\* delta after the forcing rule of lines 183-188
ForcedDelta(scores, requested) ==
    IF Len(scores) >= 2
    THEN LET last == scores[Len(scores)]
             prev == scores[Len(scores) - 1]
             d1 == IF last >= 3 /\ prev >= 3 THEN Max(requested, 1) ELSE requested
         IN  IF last <= 1 /\ prev <= 1 THEN Min(d1, -1) ELSE d1
    ELSE requested

\* ClampLevel without the upper end
ClampLevel_no_ceiling(level) == Max(1, level)

\* max(1, min(5, level))
ClampLevel(level) == Max(1, Min(5, level))

\* update_difficulty that keeps every score it was given
update_difficulty_keep_all(st, an) ==
    LET scores == LastN(st.recent_scores, 1) \o <<an.answer_score>>
        recent == Append(st.recent_scores, an.answer_score)
        delta == ForcedDelta(scores, an.difficulty_delta)
    IN  [new_level |-> ClampLevel(st.difficulty + delta),
         recent_scores |-> recent]

\* the level returned and the history left in state.recent_scores
update_difficulty(st, an) ==
    LET scores == LastN(st.recent_scores, 1) \o <<an.answer_score>>
        recent == LastN(Append(st.recent_scores, an.answer_score), RecentScoresKept)
        delta == ForcedDelta(scores, an.difficulty_delta)
    IN  [new_level |-> ClampLevel(st.difficulty + delta),
         recent_scores |-> recent]

-----------------------------------------------------------------------------
(* Stop evaluator *)

\* _stop_reason with a strict turn limit
_stop_reason_strict_limit(st, p, tr) ==
    IF st.max_turns # 0 /\ Len(st.history) > st.max_turns THEN "limit"
    ELSE IF /\ RGe(tr.must_coverage, p.rules.target_must_coverage)
            /\ RGe(tr.overall_coverage, st.coverage_threshold)
         THEN "coverage"
         ELSE "none"

\* "limit", "coverage", or "none" for None; state.progress and
\* state.topic_plan are always set by run_interview
_stop_reason(st, p, tr) ==
    IF st.max_turns # 0 /\ Len(st.history) >= st.max_turns THEN "limit"
    ELSE IF /\ RGe(tr.must_coverage, p.rules.target_must_coverage)
            /\ RGe(tr.overall_coverage, st.coverage_threshold)
         THEN "coverage"
         ELSE "none"

-----------------------------------------------------------------------------
(* Confidence score *)

\* round(x) of a non-negative x: to the nearest integer, a tie to the even one
Round(r) ==
    LET q == r[1] \div r[2]
        rem == r[1] % r[2]
    IN  IF 2 * rem < r[2] THEN q
        ELSE IF 2 * rem > r[2] THEN q + 1
        ELSE IF q % 2 = 0 THEN q ELSE q + 1

\* compute_confidence without the upper clamp
compute_confidence_unclamped(st, p, tr) ==
    IF ~st.has_progress THEN 50
    ELSE LET base == Round(RMul(tr.overall_coverage, RInt(100)))
             penalty == (IF st.hallucination_detected THEN 20 ELSE 0)
                        + (IF RLt(tr.must_coverage, p.rules.target_must_coverage)
                           THEN 15 ELSE 0)
                        + (IF RLt(tr.overall_coverage, st.coverage_threshold)
                           THEN 10 ELSE 0)
             bonus == Min(st.honesty_count * 3, 10)
         IN  Max(0, base - penalty + bonus)

\* state.topic_plan is set whenever state.progress is
compute_confidence(st, p, tr) ==
    IF ~st.has_progress THEN 50
    ELSE LET base == Round(RMul(tr.overall_coverage, RInt(100)))
             penalty == (IF st.hallucination_detected THEN 20 ELSE 0)
                        + (IF RLt(tr.must_coverage, p.rules.target_must_coverage)
                           THEN 15 ELSE 0)
                        + (IF RLt(tr.overall_coverage, st.coverage_threshold)
                           THEN 10 ELSE 0)
             bonus == Min(st.honesty_count * 3, 10)
         IN  Max(0, Min(100, base - penalty + bonus))

-----------------------------------------------------------------------------
(* Tracker driver: record_progress and select_next_topic called on a plan *)

\* grade and the topics kept of its catalog
PlanInputs ==
    { [grade |-> "junior", focus |-> {"python_basics", "oop_principles"}],
      [grade |-> "middle", focus |-> {"system_design", "performance"}],
      [grade |-> "senior", focus |-> {"python_basics", "performance"}],
      [grade |-> "middle", focus |-> {"caching", "security"}],
      [grade |-> "intern", focus |-> {"python_basics"}] }

PlanIds(p) == {p.topics[i].id : i \in 1..Len(p.topics)}

UnknownTopicId == "unknown_topic"

\* topic ids the driver passes to record_progress: the plan's, and on a
\* single-topic plan also an id the plan does not hold
CallIds(p) == PlanIds(p) \cup (IF Len(p.topics) = 1 THEN {UnknownTopicId} ELSE {})

\* turns the driver passes to select_next_topic: those that follow the last
\* recorded one (turn 1 on a fresh tracker)
SelectTurns(tr) ==
    (Len(tr.asked_questions) + 1)..(Len(tr.asked_questions) + TurnSlack)

\* raw scores handed to record_progress: the 0..4 scale and one value beyond each end
RawScores == -1..5

TrackerInit ==
    \E pi \in PlanInputs :
        /\ plan = RestrictPlan(build_topic_plan(pi.grade), pi.focus)
        /\ tracker = from_plan(plan)
        /\ state = SessionState(pi.grade, plan, tracker)
        /\ selection = NoSelection
        /\ current_turn = 0
        /\ analysis = NoAnalysis
        /\ stop_reason = "none"
        /\ loop = NoLoop
        /\ calls = <<>>
        /\ pc = "tracker"

TrackerRecord ==
    /\ pc = "tracker"
    /\ Len(tracker.asked_questions) < MaxCalls
    /\ \E topic_id \in CallIds(plan), score \in RawScores :
          LET r == record_progress(plan, tracker, topic_id,
                                   Len(tracker.asked_questions) + 1, score,
                                   state.difficulty)
          IN  /\ plan' = r.plan
              /\ tracker' = r.tracker
    /\ UNCHANGED <<calls, state, selection, current_turn, analysis, stop_reason, loop, pc>>

\* the selector queried on the tracker as it stands
TrackerSelect ==
    /\ pc = "tracker"
    /\ \E turn \in SelectTurns(tracker) :
          /\ selection' = select_next_topic(plan, tracker, turn, state.difficulty)
          /\ current_turn' = turn
    /\ pc' = "selected"
    /\ UNCHANGED <<calls, plan, tracker, state, analysis, stop_reason, loop>>

\* numbers of recorded turns the stop evaluator is queried with: as many as
\* answers were recorded, and the counts around the plan's limit
StopTurns(p, tr) ==
    {Len(tr.asked_questions), p.rules.max_total_turns - 1, p.rules.max_total_turns}

\* the stop evaluator queried on the tracker as it stands
TrackerStop ==
    /\ pc = "tracker"
    /\ \E n \in StopTurns(plan, tracker) :
          LET st == [state EXCEPT !.history = [i \in 1..n |-> i]]
          IN  /\ state' = st
              /\ stop_reason' = _stop_reason(st, plan, tracker)
    /\ pc' = "stop_checked"
    /\ UNCHANGED <<calls, plan, tracker, selection, current_turn, analysis, loop>>

\* honesty admissions counted in a session
HonestyCounts == {0, 4}

\* the confidence score asked for on the tracker as it stands, and, before
\* anything is recorded, on a session that holds no tracker
TrackerConfidence ==
    /\ pc = "tracker"
    /\ \E hallu \in BOOLEAN, honesty \in HonestyCounts,
          progress \in (IF tracker.asked_questions = <<>> THEN BOOLEAN ELSE {TRUE}) :
          LET st == [state EXCEPT !.hallucination_detected = hallu,
                                  !.honesty_count = honesty,
                                  !.has_progress = progress]
          IN  /\ state' = st
              /\ loop' = [loop EXCEPT !.confidence_score =
                                        compute_confidence(st, plan, tracker)]
    /\ pc' = "confidence_checked"
    /\ UNCHANGED <<calls, plan, tracker, selection, current_turn, analysis, stop_reason>>

TrackerNext == TrackerRecord \/ TrackerSelect \/ TrackerStop \/ TrackerConfidence

SpecTracker == TrackerInit /\ [][TrackerNext]_vars

-----------------------------------------------------------------------------
(* Call-log driver: record_progress called on a plan, the arguments of every
   call kept in calls *)

\* number of calls the call-log driver makes
MaxLogged == 3

LogInit ==
    \E pi \in PlanInputs :
        /\ plan = RestrictPlan(build_topic_plan(pi.grade), pi.focus)
        /\ tracker = from_plan(plan)
        /\ state = SessionState(pi.grade, plan, tracker)
        /\ selection = NoSelection
        /\ current_turn = 0
        /\ analysis = NoAnalysis
        /\ stop_reason = "none"
        /\ loop = NoLoop
        /\ calls = <<>>
        /\ pc = "logging"

LogRecord ==
    /\ pc = "logging"
    /\ Len(calls) < MaxLogged
    /\ \E topic_id \in CallIds(plan), score \in RawScores :
          LET turn_id == Len(calls) + 1
              r == record_progress(plan, tracker, topic_id, turn_id, score, state.difficulty)
          IN  /\ plan' = r.plan
              /\ tracker' = r.tracker
              /\ calls' = Append(calls, [topic_id |-> topic_id, turn_id |-> turn_id,
                                         score |-> score])
    /\ UNCHANGED <<state, selection, current_turn, analysis, stop_reason, loop, pc>>

LogNext == LogRecord

SpecCallLog == LogInit /\ [][LogNext]_vars

-----------------------------------------------------------------------------
(* Suggestion driver: suggest_difficulty applied to a level and the stats of
   a topic *)

\* most answers the topic has received
MaxAsked == 5

\* asked scores in 0..4 that sum to total: 4s first, then the rest, then 0s
ScoresSumming(asked, total) ==
    [i \in 1..asked |-> Max(0, Min(4, total - 4 * (i - 1)))]

\* plan and tracker after record_progress was called on a topic with each of
\* the scores, turn after turn
RECURSIVE RecordScores(_, _, _, _)
RecordScores(p, tr, topic_id, scores) ==
    IF scores = <<>> THEN [plan |-> p, tracker |-> tr]
    ELSE LET before == RecordScores(p, tr, topic_id, SubSeq(scores, 1, Len(scores) - 1))
         IN  record_progress(before.plan, before.tracker, topic_id, Len(scores),
                             scores[Len(scores)], 2)

SuggestInit ==
    \E base \in 1..5, asked \in 0..MaxAsked :
    \E total \in 0..(4 * asked) :
        LET p == RestrictPlan(build_topic_plan("junior"), {"python_basics"})
            r == RecordScores(p, from_plan(p), "python_basics",
                              ScoresSumming(asked, total))
        IN  /\ plan = r.plan
            /\ tracker = r.tracker
            /\ state = [SessionState("junior", plan, tracker) EXCEPT !.difficulty = base]
            /\ selection = NoSelection
            /\ current_turn = 0
            /\ analysis = NoAnalysis
            /\ stop_reason = "none"
            /\ loop = NoLoop
            /\ calls = <<>>
            /\ pc = "suggest"

SuggestApply ==
    /\ pc = "suggest"
    /\ LET topic == plan.topics[1]
       IN  selection' = TopicSelection(topic, "stay",
                           suggest_difficulty(state.difficulty, StatsOf(tracker, topic.id)))
    /\ pc' = "suggested"
    /\ UNCHANGED <<plan, tracker, state, current_turn, analysis, stop_reason, loop, calls>>

SuggestNext == SuggestApply

SpecSuggest == SuggestInit /\ [][SuggestNext]_vars

-----------------------------------------------------------------------------
(* Difficulty driver: update_difficulty called over and over, the level it
   returns written back to state.difficulty as run_interview line 590 does *)

DifficultyInit ==
    \E level \in 1..5 :
        /\ plan = build_topic_plan("junior")
        /\ tracker = from_plan(plan)
        /\ state = [SessionState("junior", plan, tracker) EXCEPT !.difficulty = level]
        /\ selection = NoSelection
        /\ current_turn = 0
        /\ analysis = NoAnalysis
        /\ stop_reason = "none"
        /\ loop = NoLoop
        /\ calls = <<>>
        /\ pc = "difficulty"

DifficultyUpdate ==
    /\ pc \in {"difficulty", "updated"}
    /\ \E score \in AnswerScores, delta \in DifficultyDeltas :
          LET an == ObserverAnalysis(score, delta)
              r == update_difficulty(state, an)
          IN  /\ analysis' = an
              /\ state' = [state EXCEPT !.difficulty = r.new_level,
                                        !.recent_scores = r.recent_scores]
    /\ pc' = "updated"
    /\ UNCHANGED <<calls, plan, tracker, selection, current_turn, stop_reason, loop>>

DifficultyNext == DifficultyUpdate

SpecDifficulty == DifficultyInit /\ [][DifficultyNext]_vars

-----------------------------------------------------------------------------
(* Score-log driver: update_difficulty called over and over, the score of
   every call kept in calls; one session writes the returned level back to
   state.difficulty as run_interview does, the other drops it as a caller
   that only reads the result does *)

\* number of calls the score-log driver makes
MaxScored == 4

\* the session state when update_difficulty returns: the function assigns
\* state.recent_scores and nothing else
AfterUpdateDifficulty(st, an) ==
    [st EXCEPT !.recent_scores = update_difficulty(st, an).recent_scores]

ScoreLogInit ==
    \E level \in 1..5, mode \in {"scoring_kept", "scoring_dropped"} :
        /\ plan = build_topic_plan("junior")
        /\ tracker = from_plan(plan)
        /\ state = [SessionState("junior", plan, tracker) EXCEPT !.difficulty = level]
        /\ selection = NoSelection
        /\ current_turn = 0
        /\ analysis = NoAnalysis
        /\ stop_reason = "none"
        /\ loop = NoLoop
        /\ calls = <<>>
        /\ pc = mode

\* state.difficulty = update_difficulty(state, analysis)
ScoreLogAssign ==
    /\ pc = "scoring_kept"
    /\ Len(calls) < MaxScored
    /\ \E score \in AnswerScores, delta \in DifficultyDeltas :
          LET an == ObserverAnalysis(score, delta)
          IN  /\ analysis' = an
              /\ state' = [AfterUpdateDifficulty(state, an)
                             EXCEPT !.difficulty = update_difficulty(state, an).new_level]
              /\ calls' = Append(calls, score)
    /\ UNCHANGED <<plan, tracker, selection, current_turn, stop_reason, loop, pc>>

\* lvl = update_difficulty(state, analysis)
ScoreLogRead ==
    /\ pc = "scoring_dropped"
    /\ Len(calls) < MaxScored
    /\ \E score \in AnswerScores, delta \in DifficultyDeltas :
          LET an == ObserverAnalysis(score, delta)
          IN  /\ analysis' = an
              /\ state' = AfterUpdateDifficulty(state, an)
              /\ calls' = Append(calls, score)
    /\ UNCHANGED <<plan, tracker, selection, current_turn, stop_reason, loop, pc>>

ScoreLogNext == ScoreLogAssign \/ ScoreLogRead

SpecScoreLog == ScoreLogInit /\ [][ScoreLogNext]_vars

-----------------------------------------------------------------------------
(* Interview loop: run_interview from the construction of the session to
   the end of the while loop, one action per stage of a turn *)

\* number of answers the candidate gives before the scripted answers run out
MaxAnswers == 2

\* grades a session is started with; "intern" is a grade the builder does not know
Grades == {"junior", "middle", "senior", "intern"}

\* years _extract_years_from_experience reads out of the experience text
ExperienceYears == {0, 1, 3, 8}

_initial_difficulty(grade_l, years) ==
    LET base == IF grade_l = "senior" THEN 4
                ELSE IF grade_l = "middle" THEN 3
                ELSE 2
        adjusted == IF years >= 8 THEN base + 1
                    ELSE IF 0 < years /\ years <= 1 THEN base - 1
                    ELSE base
    IN  Max(1, Min(5, adjusted))

\* difficulty of the planner's InterviewerPlan: Field(ge=1, le=5); the mock
\* planner answers 2, the fallback plan carries the level it was asked for
MockPlanDifficulty == 2
PlannerLevels(requested) == {requested, MockPlanDifficulty}

\* _maybe_stay_on_topic that never stays
_maybe_stay_on_topic_never(st, p, tr, topic_id) == <<>>

\* None is <<>>, a selection s is <<s>>
_maybe_stay_on_topic(st, p, tr, topic_id) ==
    LET found == FirstOf(SelectSeq(p.topics, LAMBDA t : t.id = topic_id))
    IN  IF topic_id = "none" \/ found = <<>> THEN <<>>
        ELSE IF found[1].status = "covered" THEN <<>>
        ELSE << TopicSelection(found[1], "stay",
                               suggest_difficulty(st.difficulty, StatsOf(tr, topic_id))) >>

\* state after line 431
LoopInit ==
    \E grade_l \in Grades, years \in ExperienceYears :
        /\ plan = build_topic_plan(grade_l)
        /\ tracker = from_plan(plan)
        /\ state = [SessionState(grade_l, plan, tracker)
                      EXCEPT !.difficulty = _initial_difficulty(grade_l, years)]
        /\ selection = NoSelection
        /\ current_turn = 0
        /\ analysis = NoAnalysis
        /\ stop_reason = "none"
        /\ loop = NoLoop
        /\ calls = <<>>
        /\ pc = "start"

\* lines 443-481: first selection and first question
LoopFirstSelection ==
    /\ pc = "start"
    /\ LET sel == select_next_topic(plan, tracker, 1, state.difficulty)
       IN  /\ selection' = sel
           /\ current_turn' = 1
           /\ state' = [state EXCEPT !.current_topic_id = sel.topic.id,
                                     !.difficulty = sel.desired_difficulty]
           /\ \E d \in PlannerLevels(sel.desired_difficulty) :
                 loop' = [loop EXCEPT !.current_question_difficulty = d]
    /\ pc' = "await"
    /\ UNCHANGED <<calls, plan, tracker, analysis, stop_reason>>

\* lines 484-490, 524-526: the scripted answers run out, or the message is a
\* stop command
LoopStop ==
    /\ pc = "await"
    /\ \E msg \in {"script", "candidate"} :
          loop' = [loop EXCEPT !.stop_reason_msg = msg]
    /\ pc' = "done"
    /\ UNCHANGED <<calls, plan, tracker, state, selection, current_turn, analysis, stop_reason>>

\* what the observer crew hands back: <<>> is an output that does not
\* validate as an ObserverAnalysis, <<o>> one that does
ObserverOutput(intent, score, correctness, topic_id, delta) ==
    [detected_intent |-> intent, answer_score |-> score, correctness |-> correctness,
     topic_id |-> topic_id, difficulty_delta |-> delta]

\* intents and correctness values the observer's parsed outputs are drawn from
ObservedIntents == {"NORMAL_ANSWER", "OFF_TOPIC"}
ObservedCorrectness == {"PARTIALLY_CORRECT", "UNKNOWN"}

RawOutputs(topic_id) ==
    {<<>>} \cup { <<ObserverOutput(i, s, c, topic_id, d)>> :
                     i \in ObservedIntents, s \in AnswerScores,
                     c \in ObservedCorrectness, d \in DifficultyDeltas }

\* (obj, parsed) of _try_parse_analysis
_try_parse_analysis(raw) ==
    [obj |-> raw, parsed |-> raw # <<>>]

\* the except branch of _ensure_analysis_object, scoring the answer 0
FallbackAnalysis_zero_score(fallback_topic_id) ==
    ObserverOutput("NORMAL_ANSWER", 0, "UNKNOWN", fallback_topic_id, 0)

\* the except branch of _ensure_analysis_object
FallbackAnalysis(fallback_topic_id) ==
    ObserverOutput("NORMAL_ANSWER", 2, "UNKNOWN", fallback_topic_id, 0)

_ensure_analysis_object(raw, fallback_topic_id) ==
    IF raw # <<>> THEN raw[1] ELSE FallbackAnalysis(fallback_topic_id)

\* lines 528-572: an answer arrives, the observer is asked, asked once more
\* if its output does not parse, and the analysis is the parsed object or
\* the fallback
LoopAnswer ==
    /\ pc = "await"
    /\ Len(state.history) < MaxAnswers
    /\ \E raw1 \in RawOutputs(state.current_topic_id) :
       \E raw2 \in (IF _try_parse_analysis(raw1).parsed THEN {raw1}
                    ELSE RawOutputs(state.current_topic_id)) :
          LET first == _try_parse_analysis(raw1)
              kickoffs == IF first.parsed THEN 1 ELSE 2
              obs_raw == IF first.parsed THEN raw1 ELSE raw2
              second == _try_parse_analysis(obs_raw)
              obs_output == IF second.obj # <<>> THEN second.obj[1]
                            ELSE _ensure_analysis_object(obs_raw, state.current_topic_id)
          IN  /\ analysis' = ObserverAnalysis(obs_output.answer_score,
                                              obs_output.difficulty_delta)
              /\ loop' = [loop EXCEPT !.turn_id = Len(state.history) + 1,
                                      !.observer_calls = kickoffs,
                                      !.parsed = second.parsed,
                                      !.detected_intent = obs_output.detected_intent,
                                      !.correctness = obs_output.correctness,
                                      !.topic_id = obs_output.topic_id]
    /\ pc' = "parsed"
    /\ UNCHANGED <<calls, plan, tracker, state, selection, current_turn, stop_reason>>

\* lines 574-585: the off-topic / injection heuristic overrides the intent,
\* and it or the controversial-claim heuristic zeroes the delta
LoopHeuristics ==
    /\ pc = "parsed"
    /\ \E off_topic \in BOOLEAN, controversial \in BOOLEAN :
          LET forced == off_topic /\ loop.detected_intent # "OFF_TOPIC"
          IN  /\ loop' = [loop EXCEPT !.detected_intent =
                                        IF forced THEN "OFF_TOPIC" ELSE @]
              /\ analysis' = [analysis EXCEPT !.difficulty_delta =
                                        IF forced \/ controversial THEN 0 ELSE @]
    /\ pc' = "observed"
    /\ UNCHANGED <<calls, plan, tracker, state, selection, current_turn, stop_reason>>

\* line 590
LoopUpdateDifficulty ==
    /\ pc = "observed"
    /\ LET r == update_difficulty(state, analysis)
       IN  state' = [state EXCEPT !.difficulty = r.new_level,
                                  !.recent_scores = r.recent_scores]
    /\ pc' = "adjusted"
    /\ UNCHANGED <<calls, plan, tracker, selection, current_turn, analysis, stop_reason, loop>>

\* LoopRecordProgress running ahead of the difficulty update
LoopRecordProgress_first ==
    /\ pc = "observed"
    /\ LET r == record_progress(plan, tracker, state.current_topic_id, loop.turn_id,
                                analysis.answer_score, loop.current_question_difficulty)
       IN  /\ plan' = r.plan
           /\ tracker' = r.tracker
    /\ pc' = "recorded"
    /\ UNCHANGED <<calls, state, selection, current_turn, analysis, stop_reason, loop>>

\* lines 593-603; state.current_topic_id is always set by then
LoopRecordProgress ==
    /\ pc = "adjusted"
    /\ LET r == record_progress(plan, tracker, state.current_topic_id, loop.turn_id,
                                analysis.answer_score, loop.current_question_difficulty)
       IN  /\ plan' = r.plan
           /\ tracker' = r.tracker
    /\ pc' = "recorded"
    /\ UNCHANGED <<calls, state, selection, current_turn, analysis, stop_reason, loop>>

\* lines 605-613
LoopSelect ==
    /\ pc = "recorded"
    /\ LET stay == _maybe_stay_on_topic(state, plan, tracker, state.current_topic_id)
           sel == IF stay # <<>> THEN stay[1]
                  ELSE select_next_topic(plan, tracker, loop.turn_id + 1, state.difficulty)
       IN  /\ selection' = sel
           /\ current_turn' = IF stay # <<>> THEN current_turn ELSE loop.turn_id + 1
           /\ state' = [state EXCEPT !.current_topic_id = sel.topic.id,
                                     !.difficulty = sel.desired_difficulty]
    /\ pc' = "reselected"
    /\ UNCHANGED <<calls, plan, tracker, analysis, stop_reason, loop>>

\* the observer's locals once the turn that produced them is over: they are
\* written again before they are read
ObserverDone(l) ==
    [l EXCEPT !.observer_calls = NoLoop.observer_calls, !.parsed = NoLoop.parsed,
              !.detected_intent = NoLoop.detected_intent,
              !.correctness = NoLoop.correctness, !.topic_id = NoLoop.topic_id]

\* lines 615-693: the next question is planned, the turn is registered, the
\* stop evaluator is asked
LoopRegisterTurn ==
    /\ pc = "reselected"
    /\ LET st == [state EXCEPT !.history = Append(@, loop.turn_id)]
           stop == _stop_reason(st, plan, tracker)
       IN  /\ state' = st
           /\ stop_reason' = stop
           /\ IF stop # "none"
              THEN /\ loop' = [ObserverDone(loop) EXCEPT !.stop_reason_msg = stop]
                   /\ pc' = "done"
              ELSE /\ \E d \in PlannerLevels(state.difficulty) :
                         loop' = [ObserverDone(loop) EXCEPT !.current_question_difficulty = d]
                   /\ pc' = "await"
    /\ UNCHANGED <<calls, plan, tracker, selection, current_turn, analysis>>

LoopNext ==
    \/ LoopFirstSelection
    \/ LoopStop
    \/ LoopAnswer
    \/ LoopHeuristics
    \/ LoopUpdateDifficulty
    \/ LoopRecordProgress
    \/ LoopSelect
    \/ LoopRegisterTurn

SpecLoop == LoopInit /\ [][LoopNext]_vars

\* the tracker driver and the interview loop side by side
SpecTrackerAndLoop ==
    (TrackerInit \/ LoopInit) /\ [][TrackerNext \/ LoopNext]_vars

\* the difficulty driver and the interview loop side by side
SpecDifficultyAndLoop ==
    (DifficultyInit \/ LoopInit) /\ [][DifficultyNext \/ LoopNext]_vars

-----------------------------------------------------------------------------
(* Session driver: run_interview from the first question to the end of the
   loop, one action for the routing of a message and one for the rest of the
   turn, so that a session runs up to the turn limit of its plan; the score
   of every record_progress call is kept in calls *)

\* turns in which the candidate's message carries any mix of phrases and
\* flags; later messages are plain answers or plain stop commands
MaxFlagged == 1

\* most admissions of not knowing counted in a session
MaxHonest == 1

\* most weak answers a candidate gives in a session
MaxWeak == 2

\* scores the observer gives in a session: a weak and a full answer
WeakScore == 1
FullScore == 4

\* scores of the record_progress calls made so far that were weak
WeakAnswers(log) == {i \in 1..Len(log) : log[i] = WeakScore}

SessionScores(log) ==
    {FullScore} \cup (IF Cardinality(WeakAnswers(log)) < MaxWeak THEN {WeakScore} ELSE {})

\* difficulty_delta the observer asks for: any in the turns with flagged
\* messages, none afterwards
SessionDeltas(registered) ==
    IF registered < MaxFlagged THEN DifficultyDeltas ELSE {0}

classify_intent(m) ==
    IF m.stop THEN "STOP"
    ELSE IF m.progress THEN "PROGRESS"
    ELSE IF m.role_request \/ m.role_hint THEN "ROLE_REVERSAL"
    ELSE IF m.off_topic_hint THEN "OFF_TOPIC"
    ELSE "NORMAL_ANSWER"

\* intent after the overrides of lines 511-516
RoutedIntent(m) ==
    LET i1 == IF m.injection THEN "OFF_TOPIC" ELSE classify_intent(m)
        i2 == IF i1 = "NORMAL_ANSWER" /\ m.context_off_topic THEN "OFF_TOPIC" ELSE i1
    IN  IF m.role_request THEN "ROLE_REVERSAL" ELSE i2

\* detect_off_topic_context answers False on an admission of not knowing
FlaggedMessages ==
    { m \in [stop : BOOLEAN, progress : BOOLEAN, role_request : BOOLEAN,
             role_hint : BOOLEAN, off_topic_hint : BOOLEAN, injection : BOOLEAN,
             context_off_topic : BOOLEAN, controversial : BOOLEAN, honesty : BOOLEAN] :
        m.honesty => ~m.context_off_topic }

PlainMessages == {NoMessage, [NoMessage EXCEPT !.stop = TRUE]}

\* messages the candidate sends when turn_id answers are registered
Messages(registered) ==
    IF registered < MaxFlagged THEN FlaggedMessages ELSE PlainMessages

SessionInit ==
    \E grade_l \in Grades :
        /\ plan = build_topic_plan(grade_l)
        /\ tracker = from_plan(plan)
        /\ state = [SessionState(grade_l, plan, tracker)
                      EXCEPT !.difficulty = _initial_difficulty(grade_l, 0)]
        /\ selection = NoSelection
        /\ current_turn = 0
        /\ analysis = NoAnalysis
        /\ stop_reason = "none"
        /\ loop = NoLoop
        /\ calls = <<>>
        /\ pc = "start"

\* lines 484-490: the scripted answers run out
SessionScriptEnds ==
    /\ pc = "await"
    /\ loop' = [loop EXCEPT !.stop_reason_msg = "script"]
    /\ pc' = "done"
    /\ UNCHANGED <<plan, tracker, state, selection, current_turn, analysis, stop_reason, calls>>

\* lines 491-526: a message is read, classified and routed
SessionMessage ==
    /\ pc = "await"
    /\ \E m \in Messages(Len(state.history)) :
          /\ m.honesty => state.honesty_count < MaxHonest
          /\ state' = [state EXCEPT !.honesty_count = IF m.honesty THEN @ + 1 ELSE @]
          /\ LET intent == RoutedIntent(m)
             IN  IF intent = "PROGRESS"
                 THEN /\ loop' = [loop EXCEPT !.message = m]
                      /\ pc' = "await"
                 ELSE IF intent = "STOP"
                 THEN /\ loop' = [loop EXCEPT !.message = m, !.stop_reason_msg = "candidate"]
                      /\ pc' = "done"
                 ELSE /\ loop' = [loop EXCEPT !.message = m,
                                              !.turn_id = Len(state.history) + 1]
                      /\ pc' = "answering"
    /\ UNCHANGED <<plan, tracker, selection, current_turn, analysis, stop_reason, calls>>

\* lines 528-693: the observer scores the answer, the level is updated, the
\* answer recorded, the next topic selected, the turn registered and the stop
\* evaluator asked
SessionTurn ==
    /\ pc = "answering"
    /\ \E score \in SessionScores(calls), delta \in SessionDeltas(Len(state.history)) :
          LET m == loop.message
              obs_output == ObserverOutput("NORMAL_ANSWER", score, "PARTIALLY_CORRECT",
                                           state.current_topic_id, delta)
              forced == (m.context_off_topic \/ m.injection)
                           /\ obs_output.detected_intent # "OFF_TOPIC"
              an == ObserverAnalysis(score,
                                     IF forced \/ m.controversial THEN 0 ELSE delta)
          IN
          \E upd \in {update_difficulty(state, an)} :
          \E rec \in {record_progress(plan, tracker, state.current_topic_id, loop.turn_id,
                                      an.answer_score, loop.current_question_difficulty)} :
          \E stay \in {_maybe_stay_on_topic([state EXCEPT !.difficulty = upd.new_level],
                                            rec.plan, rec.tracker, state.current_topic_id)} :
          \E sel \in {IF stay # <<>> THEN stay[1]
                      ELSE select_next_topic(rec.plan, rec.tracker, loop.turn_id + 1,
                                             upd.new_level)} :
          \E st \in {[state EXCEPT !.recent_scores = upd.recent_scores,
                                   !.current_topic_id = sel.topic.id,
                                   !.difficulty = sel.desired_difficulty,
                                   !.history = Append(@, loop.turn_id)]} :
          \E stop \in {_stop_reason(st, rec.plan, rec.tracker)} :
              /\ analysis' = an
              /\ plan' = rec.plan
              /\ tracker' = rec.tracker
              /\ selection' = sel
              /\ current_turn' = IF stay # <<>> THEN current_turn ELSE loop.turn_id + 1
              /\ state' = st
              /\ stop_reason' = stop
              /\ IF stop # "none"
                 THEN /\ loop' = [loop EXCEPT !.stop_reason_msg = stop,
                                              !.message = NoMessage]
                      /\ pc' = "done"
                 ELSE /\ loop' = [loop EXCEPT !.current_question_difficulty =
                                                  sel.desired_difficulty,
                                              !.message = NoMessage]
                      /\ pc' = "await"
              /\ calls' = Append(calls, score)

SessionNext ==
    \/ LoopFirstSelection
    \/ SessionScriptEnds
    \/ SessionMessage
    \/ SessionTurn

SpecSession == SessionInit /\ [][SessionNext]_vars

-----------------------------------------------------------------------------
(* Sweep driver: record_progress called with full scores on the must topics
   of a whole plan, in plan order, up to the plan's max_total_turns calls.
   The stats a topic ends with do not depend on the order of the calls, so
   the sweep reaches the stats of every sequence of such calls. *)

\* most answers the sweep records on one topic
SweepPerTopic == 2

\* plan index of the topic the sweep asked last (1 before the first call)
LastSwept(p, tr) ==
    IF tr.asked_questions = <<>> THEN 1
    ELSE LET last == tr.asked_questions[Len(tr.asked_questions)].topic_id
         IN  CHOOSE i \in 1..Len(p.topics) : p.topics[i].id = last

SweepInit ==
    \E grade_l \in Grades :
        /\ plan = build_topic_plan(grade_l)
        /\ tracker = from_plan(plan)
        /\ state = SessionState(grade_l, plan, tracker)
        /\ selection = NoSelection
        /\ current_turn = 0
        /\ analysis = NoAnalysis
        /\ stop_reason = "none"
        /\ loop = NoLoop
        /\ calls = <<>>
        /\ pc = "sweep"

SweepRecord ==
    /\ pc = "sweep"
    /\ Len(tracker.asked_questions) < plan.rules.max_total_turns
    /\ \E i \in LastSwept(plan, tracker)..Len(plan.topics) :
          /\ plan.topics[i].priority = "must"
          /\ StatsOf(tracker, plan.topics[i].id).asked < SweepPerTopic
          /\ \E r \in {record_progress(plan, tracker, plan.topics[i].id,
                                        Len(tracker.asked_questions) + 1, FullScore,
                                        state.difficulty)} :
                /\ plan' = r.plan
                /\ tracker' = r.tracker
    /\ UNCHANGED <<state, selection, current_turn, analysis, stop_reason, loop, calls, pc>>

SweepNext == SweepRecord

\* the sweep and the sessions side by side
SpecSweepAndSession ==
    (SweepInit \/ SessionInit) /\ [][SweepNext \/ SessionNext]_vars

\* the tracker driver and the sessions side by side
SpecTrackerAndSession ==
    (TrackerInit \/ SessionInit) /\ [][TrackerNext \/ SessionNext]_vars

-----------------------------------------------------------------------------
(* Claims on the progress tracker *)

TopicIdx == 1..Len(plan.topics)
StatsAt(i) == StatsOf(tracker, plan.topics[i].id)

\* C1: over any sequence of record_progress calls (any topic, any score), a
\* topic whose status is covered is still covered after the next call.
C1_CoveredStaysCovered ==
    [][\A i \in TopicIdx :
          plan.topics[i].status = "covered" => plan'.topics[i].status = "covered"]_vars

\* a covered topic whose running average has since fallen below the threshold
C1_Witness ==
    \E i \in TopicIdx :
        /\ plan.topics[i].status = "covered"
        /\ RLt(StatsAt(i).avg_score, tracker.coverage_threshold)

\* C2: a topic asked fewer than min_questions times (at least once) is
\* in_progress; a topic asked exactly min_questions times with score 4 each
\* time is covered with coverage_score >= coverage_threshold; and a topic not
\* yet covered is covered after a call exactly when that call leaves
\* asked >= min_questions and avg_score >= coverage_threshold.
C2_CoveredAtThreshold ==
    /\ [](\A i \in TopicIdx :
            LET t == plan.topics[i]
                st == StatsAt(i)
            IN  /\ (0 < st.asked /\ st.asked < t.min_questions) => t.status = "in_progress"
                /\ (st.asked = t.min_questions /\ st.avg_score = RInt(1))
                      => /\ t.status = "covered"
                         /\ RGe(t.coverage_score, tracker.coverage_threshold))
    /\ [][\A i \in TopicIdx :
            plan.topics[i].status # "covered"
               => (plan'.topics[i].status = "covered"
                     <=> /\ StatsAt(i)'.asked >= plan'.topics[i].min_questions
                         /\ RGe(StatsAt(i)'.avg_score, tracker'.coverage_threshold))]_vars

\* python_basics of the Junior plan after two answers scored 4
C2_Witness ==
    \E i \in TopicIdx :
        /\ plan.grade = "junior"
        /\ plan.topics[i].id = "python_basics"
        /\ plan.topics[i].min_questions = 2
        /\ StatsAt(i).asked = 2
        /\ StatsAt(i).avg_score = RInt(1)
        /\ plan.topics[i].status = "covered"

-----------------------------------------------------------------------------
(* Claims on the difficulty adjuster *)

\* C4: every level update_difficulty returns, fed back as the current level,
\* is in 1..5 for scores 0..4 and deltas -1..1 from any starting level in
\* 1..5; and in the interview loop state.difficulty is in 1..5 at every
\* stage: initially, after update_difficulty, and after the selection's
\* desired_difficulty is written back.
C4_DifficultyBounded ==
    /\ state.difficulty \in 1..5
    /\ selection # NoSelection => selection.desired_difficulty \in 1..5

\* first answer of a Senior session already at level 5, the observer asking
\* for a harder question: the level stays 5
C4_Witness ==
    /\ pc = "adjusted"
    /\ state.grade = "senior"
    /\ loop.turn_id = 1
    /\ analysis.difficulty_delta = 1
    /\ state.difficulty = 5
    /\ selection.desired_difficulty = 5

\* the score recorded by the call before the one being made
PrevScore == state.recent_scores[Len(state.recent_scores)]

\* C5: when update_difficulty is called with a score >= 3 and the score
\* recorded just before is >= 3 too, the level it returns is
\* min(5, current level + 1) whatever delta was requested (so it is never
\* lower, and strictly higher below 5).
C5_Escalation ==
    [][(/\ pc' = "updated"
        /\ state.recent_scores # <<>>
        /\ PrevScore >= 3
        /\ analysis'.answer_score >= 3)
       => /\ state'.difficulty = Min(5, state.difficulty + 1)
          /\ state'.difficulty >= state.difficulty
          /\ state.difficulty < 5 => state'.difficulty > state.difficulty]_vars

\* two answers scored 4, then 3 with a requested delta of -1, level raised to 4
C5_Witness ==
    /\ pc = "updated"
    /\ state.recent_scores = <<4, 4, 3>>
    /\ analysis = ObserverAnalysis(3, -1)
    /\ state.difficulty = 4

\* C6: when update_difficulty is called with a score <= 1 and the score
\* recorded just before is <= 1 too, the level it returns is
\* max(1, current level - 1) whatever delta was requested (strictly lower
\* above 1).
C6_Deescalation ==
    [][(/\ pc' = "updated"
        /\ state.recent_scores # <<>>
        /\ PrevScore <= 1
        /\ analysis'.answer_score <= 1)
       => /\ state'.difficulty = Max(1, state.difficulty - 1)
          /\ state.difficulty > 1 => state'.difficulty < state.difficulty]_vars

\* two answers scored 0 with a requested delta of +1, level lowered to 2
C6_Witness ==
    /\ pc = "updated"
    /\ state.recent_scores = <<0, 0>>
    /\ analysis = ObserverAnalysis(0, 1)
    /\ state.difficulty = 2

-----------------------------------------------------------------------------
(* Claims on the topic selector *)

\* topic i of the plan is on cooldown at the turn of the last selection
OnCooldownAt(i, turn) ==
    on_cooldown(plan.topics[i], StatsAt(i), plan.rules.topic_cooldown, turn)

InSeq(id, topics) == \E k \in 1..Len(topics) : topics[k].id = id

\* must_coverage is under the target and some must topic that is pending or
\* in_progress is not on cooldown
MustGateOpen(turn) ==
    /\ RLt(tracker.must_coverage, plan.rules.target_must_coverage)
    /\ \E i \in TopicIdx :
          /\ plan.topics[i].priority = "must"
          /\ plan.topics[i].status \in {"pending", "in_progress"}
          /\ ~OnCooldownAt(i, turn)

\* C7 as stated: whenever must_coverage < target_must_coverage and an
\* eligible must topic is pending or in_progress, select_next_topic returns
\* a must-priority topic, for every plan, tracker state and current_turn.
C7_MustGating_AsStated ==
    (pc = "selected" /\ MustGateOpen(current_turn))
        => selection.topic.priority = "must"

\* C7 amended: the same, for every selection that is not made by the turn-1
\* start bias.
C7_MustGating ==
    (pc = "selected" /\ MustGateOpen(current_turn) /\ selection.reason # "start bias")
        => selection.topic.priority = "must"

\* a must topic is chosen by ranking while a never-asked nice topic of the
\* plan is eligible too
C7_Witness ==
    /\ pc = "selected"
    /\ MustGateOpen(current_turn)
    /\ selection.reason = "must coverage"
    /\ selection.topic.priority = "must"
    /\ StatsOf(tracker, selection.topic.id).asked > 0
    /\ \E i \in TopicIdx :
          /\ plan.topics[i].priority = "nice"
          /\ StatsAt(i).asked = 0

\* cooldown lengths the eligibility filter is evaluated with
CooldownLengths == 0..2

\* C8: a topic is left out of the eligible pool at current_turn t exactly
\* when it is covered, was asked (last_turn L >= 0), the cooldown c is > 0
\* and t - L <= c; so a topic that is not covered, or never asked, or any
\* topic when c = 0, is never left out.
C8_CooldownEligibility ==
    \A c \in CooldownLengths, t \in SelectTurns(tracker), i \in TopicIdx :
        LET p == [plan EXCEPT !.rules.topic_cooldown = c]
            excluded == ~InSeq(plan.topics[i].id, _eligible_topics(p, tracker, t))
        IN  /\ excluded <=> /\ plan.topics[i].status = "covered"
                            /\ c > 0
                            /\ StatsAt(i).last_turn >= 0
                            /\ t - StatsAt(i).last_turn <= c
            /\ (plan.topics[i].status # "covered" \/ StatsAt(i).asked = 0 \/ c = 0)
                  => ~excluded

\* a topic covered at turn L under cooldown 2: left out by the selector at
\* L+2, and another topic is selected
C8_Witness ==
    /\ pc = "selected"
    /\ plan.rules.topic_cooldown = 2
    /\ \E i \in TopicIdx :
          /\ plan.topics[i].status = "covered"
          /\ current_turn - StatsAt(i).last_turn = 2
          /\ ~InSeq(plan.topics[i].id, _eligible_topics(plan, tracker, current_turn))
          /\ InSeq(plan.topics[i].id, _eligible_topics(plan, tracker, current_turn + 1))
          /\ selection.topic.id # plan.topics[i].id

\* C9: select_next_topic returns a topic of the plan, and that topic is on
\* cooldown only if every topic of the plan is.
C9_AlwaysATopic ==
    pc = "selected"
        => /\ selection.topic.id \in PlanIds(plan)
           /\ \A i \in TopicIdx :
                 (plan.topics[i].id = selection.topic.id /\ OnCooldownAt(i, current_turn))
                    => \A j \in TopicIdx : OnCooldownAt(j, current_turn)

\* every topic of a two-topic plan is on cooldown and one of them is returned
C9_Witness ==
    /\ pc = "selected"
    /\ Len(plan.topics) = 2
    /\ \A j \in TopicIdx : OnCooldownAt(j, current_turn)
    /\ selection.topic.id \in PlanIds(plan)

-----------------------------------------------------------------------------
(* Claims on the stop evaluator *)

\* C10: _stop_reason returns a reason exactly when the number of recorded
\* turns is >= max_total_turns or (must_coverage >= target_must_coverage and
\* overall_coverage >= coverage_threshold); with max_total_turns = 10 and 10
\* recorded turns it returns one whatever the coverage values are.
C10_StopCondition ==
    pc = "stop_checked"
        => /\ stop_reason # "none"
                <=> \/ Len(state.history) >= plan.rules.max_total_turns
                    \/ /\ RGe(tracker.must_coverage, plan.rules.target_must_coverage)
                       /\ RGe(tracker.overall_coverage, tracker.coverage_threshold)
           /\ (plan.rules.max_total_turns = 10 /\ Len(state.history) = 10)
                 => stop_reason # "none"

\* ten recorded turns under the Junior limit of 10, must coverage short of the
\* target
C10_Witness ==
    /\ pc = "stop_checked"
    /\ plan.rules.max_total_turns = 10
    /\ Len(state.history) = 10
    /\ RLt(tracker.must_coverage, plan.rules.target_must_coverage)
    /\ RLt(RInt(0), tracker.must_coverage)
    /\ stop_reason # "none"

-----------------------------------------------------------------------------
(* Claims on the interview loop *)

\* the plan's topic with this id is covered
CoveredId(id) == \E i \in TopicIdx : plan.topics[i].id = id /\ plan.topics[i].status = "covered"

\* C11: in the loop, once an answer is recorded, a just-asked topic that is
\* in the plan and not covered is the next selection, made by
\* _maybe_stay_on_topic and not by select_next_topic; select_next_topic is
\* consulted only when that topic is covered or not in the plan. So the
\* topic asked at turn t+1 differs from the topic asked at turn t only if
\* the turn-t topic is covered once turn t is recorded.
C11_Stickiness ==
    /\ [][(pc = "recorded" /\ pc' = "reselected")
            => LET asked == state.current_topic_id
               IN  /\ (asked \in PlanIds(plan) /\ ~CoveredId(asked))
                        => /\ selection'.topic.id = asked
                           /\ selection'.reason = "stay"
                           /\ state'.current_topic_id = asked
                   /\ selection'.reason # "stay"
                        => (CoveredId(asked) \/ asked \notin PlanIds(plan))
                   /\ state'.current_topic_id # asked => CoveredId(asked)]_vars
    /\ [](\A k \in 1..(Len(tracker.asked_questions) - 1) :
            tracker.asked_questions[k + 1].topic_id # tracker.asked_questions[k].topic_id
                => CoveredId(tracker.asked_questions[k].topic_id))

\* two answers on one topic, the second of which covers it, and then a
\* selection of another topic
C11_Witness ==
    /\ pc = "reselected"
    /\ Len(tracker.asked_questions) = 2
    /\ tracker.asked_questions[1].topic_id = tracker.asked_questions[2].topic_id
    /\ selection.topic.id # tracker.asked_questions[2].topic_id
    /\ selection.reason # "stay"
    /\ CoveredId(tracker.asked_questions[2].topic_id)

\* stages of a turn between the observer's answer and the next selection
TurnStages == {"parsed", "observed", "adjusted", "recorded", "reselected"}

\* the answer of the running turn is in the tracker
TurnRecorded ==
    /\ Len(tracker.asked_questions) = loop.turn_id
    /\ tracker.asked_questions[loop.turn_id].turn_id = loop.turn_id

-----------------------------------------------------------------------------
(* Claims on the plan builder *)

\* ids of a list of topics or topic definitions, in order
IdsOf(topics) == [i \in 1..Len(topics) |-> topics[i].id]

\* C12: for a grade that is none of junior, middle, senior, build_topic_plan
\* produces the Junior rule set (0.85, 10, 1) together with the base topic
\* set only.
C12_UnknownGradeIsJunior ==
    plan.grade \notin {"junior", "middle", "senior"}
        => /\ plan.rules = TopicRules(Rat(85, 100), 10, 1)
           /\ IdsOf(plan.topics) = IdsOf(BACKEND_BASE_TOPICS)

-----------------------------------------------------------------------------
(* Claims on the confidence score *)

\* 1 for a true condition, 0 for a false one
Indicator(b) == IF b THEN 1 ELSE 0

-----------------------------------------------------------------------------
(* Claims on the derived coverage ratios *)

\* positions of the plan's topics of a priority class
ClassIdx(p, must) == {i \in 1..Len(p.topics) : (p.topics[i].priority = "must") = must}

\* sum of the coverage scores of the topics at a set of positions
RECURSIVE CoverageSum(_, _)
CoverageSum(p, idx) ==
    IF idx = {} THEN RInt(0)
    ELSE LET i == CHOOSE j \in idx : TRUE
         IN  RAdd(p.topics[i].coverage_score, CoverageSum(p, idx \ {i}))

\* unweighted mean of the coverage scores at a non-empty set of positions
CoverageMean(p, idx) == RDiv(CoverageSum(p, idx), RInt(Cardinality(idx)))

\* C15: after every record_progress call each topic's coverage_score is
\* min(asked / min_questions, 1) * clamp(avg_score, 0, 1) of its current
\* stats, must_coverage is the unweighted mean of coverage_score over the
\* must topics, nice_coverage over the other topics and overall_coverage over
\* all plan topics; a ratio whose class has no topic keeps the value it had,
\* and overall_coverage is computed all the same.
C15_RatiosDerived ==
    [][Len(tracker'.asked_questions) > Len(tracker.asked_questions)
        => LET must == ClassIdx(plan', TRUE)
               nice == ClassIdx(plan', FALSE)
           IN  /\ \A i \in 1..Len(plan'.topics) :
                     LET t == plan'.topics[i]
                         st == StatsOf(tracker', t.id)
                     IN  t.coverage_score
                            = RMul(RMin(Rat(st.asked, t.min_questions), RInt(1)),
                                   RMax(RInt(0), RMin(st.avg_score, RInt(1))))
               /\ tracker'.must_coverage =
                     IF must # {} THEN CoverageMean(plan', must) ELSE tracker.must_coverage
               /\ tracker'.nice_coverage =
                     IF nice # {} THEN CoverageMean(plan', nice) ELSE tracker.nice_coverage
               /\ tracker'.overall_coverage = CoverageMean(plan', must \cup nice)]_vars

\* a plan with one must and one nice topic, both answered, three different ratios
C15_Witness ==
    /\ pc = "tracker"
    /\ Len(tracker.asked_questions) >= 2
    /\ ClassIdx(plan, TRUE) # {}
    /\ ClassIdx(plan, FALSE) # {}
    /\ RLt(RInt(0), tracker.nice_coverage)
    /\ RLt(tracker.nice_coverage, tracker.overall_coverage)
    /\ RLt(tracker.overall_coverage, tracker.must_coverage)

-----------------------------------------------------------------------------
(* Claims on the per-topic statistics *)

\* the logged calls made for a topic id, in order
CallsFor(id) == SelectSeq(calls, LAMBDA c : c.topic_id = id)

\* clamp(score, 0, 4) / 4
Normalized(score) == Rat(IF score < 0 THEN 0 ELSE IF score > 4 THEN 4 ELSE score, 4)

RECURSIVE NormalizedSum(_)
NormalizedSum(cs) ==
    IF cs = <<>> THEN RInt(0)
    ELSE RAdd(Normalized(Head(cs).score), NormalizedSum(Tail(cs)))

\* C16: after any sequence of record_progress calls, for every topic id,
\* asked is the number of calls made for it, avg_score is the arithmetic mean
\* of clamp(score, 0, 4) / 4 over those calls (hence in [0, 1]), and
\* last_turn is the turn_id of the most recent of them, -1 if there is none;
\* a raw score outside 0..4 is clamped, and the call is recorded like any other.
C16_StatsFromCalls ==
    /\ Len(tracker.asked_questions) = Len(calls)
    /\ \A id \in PlanIds(plan) \cup {UnknownTopicId} :
          LET cs == CallsFor(id)
              st == StatsOf(tracker, id)
          IN  /\ st.asked = Len(cs)
              /\ st.avg_score = IF cs = <<>> THEN RInt(0)
                                ELSE RDiv(NormalizedSum(cs), RInt(Len(cs)))
              /\ RLe(RInt(0), st.avg_score) /\ RLe(st.avg_score, RInt(1))
              /\ st.last_turn = IF cs = <<>> THEN -1 ELSE cs[Len(cs)].turn_id

\* one topic called with the raw scores 5, -1 and 3: mean (1 + 0 + 3/4) / 3
C16_Witness ==
    /\ Len(calls) = 3
    /\ \E id \in PlanIds(plan) :
          /\ Len(CallsFor(id)) = 3
          /\ calls[1].score = 5 /\ calls[2].score = -1 /\ calls[3].score = 3
          /\ StatsOf(tracker, id).avg_score = Rat(7, 12)
          /\ StatsOf(tracker, id).last_turn = 3

-----------------------------------------------------------------------------
(* Claims on the suggested difficulty *)

\* C17: suggest_difficulty(base, stats) is base when stats.asked = 0;
\* otherwise min(5, base + 1) when avg_score >= 0.75, max(1, base - 1) when
\* avg_score <= 0.40, and base in between; for base in 1..5 the result is in
\* 1..5 and differs from base by at most 1.
C17_SuggestedDifficulty ==
    pc = "suggested"
        => LET base == state.difficulty
               st == StatsOf(tracker, selection.topic.id)
               result == selection.desired_difficulty
               up == IF base + 1 > 5 THEN 5 ELSE base + 1
               down == IF base - 1 < 1 THEN 1 ELSE base - 1
           IN  /\ st.asked = 0 => result = base
               /\ (st.asked > 0 /\ RGe(st.avg_score, Rat(3, 4))) => result = up
               /\ (st.asked > 0 /\ RLe(st.avg_score, Rat(2, 5))) => result = down
               /\ (st.asked > 0 /\ RLt(Rat(2, 5), st.avg_score)
                                /\ RLt(st.avg_score, Rat(3, 4))) => result = base
               /\ result \in 1..5
               /\ result - base \in -1..1

\* an average of exactly 0.75 raises level 3 to 4
C17_Witness ==
    /\ pc = "suggested"
    /\ state.difficulty = 3
    /\ StatsOf(tracker, selection.topic.id).asked = 4
    /\ StatsOf(tracker, selection.topic.id).avg_score = Rat(3, 4)
    /\ selection.desired_difficulty = 4

-----------------------------------------------------------------------------
(* Claims on the ranking *)

\* positions of the topics the selector may choose from at a turn: those
\* not on cooldown, or all of them when every topic is on cooldown
EligibleIdx(turn) ==
    LET off == {i \in TopicIdx : ~OnCooldownAt(i, turn)}
    IN  IF off = {} THEN TopicIdx ELSE off

\* the pool the claim describes
PoolIdx(turn) ==
    LET must == {i \in EligibleIdx(turn) :
                    /\ plan.topics[i].priority = "must"
                    /\ plan.topics[i].status \in {"pending", "in_progress"}}
    IN  IF RLt(tracker.must_coverage, plan.rules.target_must_coverage) /\ must # {}
        THEN must ELSE EligibleIdx(turn)

\* the four components of the ranking key of the topic at position i
RankOf(i) == IF plan.topics[i].priority = "must" THEN 0 ELSE 1
CompletionOf(i) == Rat(StatsAt(i).asked, plan.topics[i].min_questions)
LastTurnOf(i) == IF StatsAt(i).last_turn >= 0 THEN StatsAt(i).last_turn ELSE -999

\* the key of i is lexicographically below the key of j
KeyBelow(i, j) ==
    \/ RankOf(i) < RankOf(j)
    \/ /\ RankOf(i) = RankOf(j)
       /\ \/ RLt(CompletionOf(i), CompletionOf(j))
          \/ /\ CompletionOf(i) = CompletionOf(j)
             /\ \/ RLt(StatsAt(i).avg_score, StatsAt(j).avg_score)
                \/ /\ StatsAt(i).avg_score = StatsAt(j).avg_score
                   /\ LastTurnOf(i) < LastTurnOf(j)

\* position of the selected topic in the plan
SelectedIdx == CHOOSE i \in TopicIdx : plan.topics[i].id = selection.topic.id

\* C18: when select_next_topic does not return through the start bias, the
\* topic it returns is in the candidate pool (the eligible pending or
\* in_progress must topics when must_coverage < target and there is one,
\* the whole eligible set otherwise), no topic of the pool has a smaller key
\* (priority rank, asked / min_questions, avg_score, last_turn or -999), and
\* among the topics with that key it is the first in plan order.
C18_Ranking ==
    (pc = "selected" /\ selection.reason # "start bias")
        => /\ SelectedIdx \in PoolIdx(current_turn)
           /\ \A j \in PoolIdx(current_turn) :
                 /\ ~KeyBelow(j, SelectedIdx)
                 /\ ~KeyBelow(SelectedIdx, j) => SelectedIdx <= j

\* two topics of the same rank and the same completion ratio, both answered:
\* the one with the lower average is returned although it comes second
C18_Witness ==
    /\ pc = "selected"
    /\ selection.reason # "start bias"
    /\ \E j \in PoolIdx(current_turn) :
          /\ j < SelectedIdx
          /\ RankOf(j) = RankOf(SelectedIdx)
          /\ CompletionOf(j) = CompletionOf(SelectedIdx)
          /\ StatsAt(j).asked > 0
          /\ RLt(StatsAt(SelectedIdx).avg_score, StatsAt(j).avg_score)

-----------------------------------------------------------------------------
(* Claims on the start bias *)

\* the preference list of a grade, empty for a grade without one
PreferenceList(grade_l) ==
    IF grade_l = "senior"
    THEN << "system_design_advanced", "concurrency_deep", "system_design",
            "concurrency", "performance", "reliability", "security" >>
    ELSE IF grade_l = "middle"
    THEN << "system_design", "concurrency", "http_rest", "db_sql_basics" >>
    ELSE <<>>

\* the id the start bias returns at a turn, "none" when it applies to nothing
BiasId(turn) ==
    LET prefs == PreferenceList(plan.grade)
        hits == {k \in 1..Len(prefs) :
                    \E i \in EligibleIdx(turn) :
                        /\ plan.topics[i].id = prefs[k]
                        /\ plan.topics[i].status \in {"pending", "in_progress"}}
    IN  IF turn = 1 /\ hits # {}
        THEN prefs[CHOOSE k \in hits : \A m \in hits : k <= m]
        ELSE "none"

\* the plan holds the whole catalog of its grade and nothing was recorded
FreshSession ==
    /\ IdsOf(plan.topics) = IdsOf(get_backend_topics_for_grade(plan.grade))
    /\ tracker.asked_questions = <<>>

\* C19: select_next_topic returns through the start bias only at
\* current_turn = 1 for grade senior or middle, and then returns the first
\* id of the grade's preference list that is eligible and pending or
\* in_progress; for any other grade and any other turn no bias is applied.
\* On a fresh session the first topic is system_design_advanced for senior,
\* system_design for middle and python_basics for junior.
C19_StartBias ==
    (pc \in {"selected", "await", "reselected"} /\ selection.reason # "stay")
        => /\ BiasId(current_turn) # "none"
                => /\ selection.reason = "start bias"
                   /\ selection.topic.id = BiasId(current_turn)
           /\ selection.reason = "start bias"
                => /\ current_turn = 1
                   /\ plan.grade \in {"senior", "middle"}
                   /\ selection.topic.id = BiasId(current_turn)
           /\ (current_turn = 1 /\ FreshSession)
                => selection.topic.id =
                      CASE plan.grade = "senior" -> "system_design_advanced"
                        [] plan.grade = "middle" -> "system_design"
                        [] plan.grade = "junior" -> "python_basics"
                        [] OTHER -> selection.topic.id

\* a senior plan without the first four preferred topics: the bias returns
\* performance, the fifth
C19_Witness ==
    /\ pc = "selected"
    /\ plan.grade = "senior"
    /\ current_turn = 1
    /\ selection.reason = "start bias"
    /\ selection.topic.id = "performance"
    /\ "system_design_advanced" \notin PlanIds(plan)

-----------------------------------------------------------------------------
(* Claims on the order of a turn *)

\* what has happened for the running turn
AnswerRecorded == Len(tracker.asked_questions) = loop.turn_id
LevelUpdated == Len(state.recent_scores) = Min(loop.turn_id, RecentScoresKept)
StopEvaluated == Len(state.history) = loop.turn_id

\* the steps of a turn
UpdateStep == pc' = "adjusted"
RecordStep == Len(tracker'.asked_questions) > Len(tracker.asked_questions)
SelectStep == pc' = "reselected"
StopStep == Len(state'.history) > Len(state.history)

\* C20 as stated: in every answered turn the tracker records the answer
\* before the difficulty adjuster updates the level, and the stop evaluator
\* is asked after both and before the next turn's topic is selected.
C20_TurnOrder_AsStated ==
    [][/\ UpdateStep => AnswerRecorded
       /\ StopStep => (AnswerRecorded /\ LevelUpdated /\ pc # "reselected")
       /\ SelectStep => StopEvaluated]_vars

\* C20 amended: in every answered turn the difficulty adjuster updates the
\* level first, the tracker records the answer next, the next turn's topic
\* is selected after that, and the stop evaluator is asked last, once the
\* turn is registered.
C20_TurnOrder ==
    [][/\ UpdateStep => (~AnswerRecorded /\ ~LevelUpdated /\ ~StopEvaluated)
       /\ RecordStep => (LevelUpdated /\ pc # "reselected" /\ ~StopEvaluated)
       /\ SelectStep => (LevelUpdated /\ AnswerRecorded /\ ~StopEvaluated)
       /\ StopStep => (LevelUpdated /\ AnswerRecorded /\ pc = "reselected")]_vars

\* the second turn about to be registered: level updated, answer recorded,
\* next topic chosen, the stop evaluator not yet asked
C20_Witness ==
    /\ pc = "reselected"
    /\ loop.turn_id = 2
    /\ Len(state.recent_scores) = 2
    /\ Len(tracker.asked_questions) = 2
    /\ Len(state.history) = 1
    /\ state.difficulty = selection.desired_difficulty

-----------------------------------------------------------------------------
(* Claims on the session-wide level *)

\* C21: the per-topic suggestion is a hint carried in
\* selection.desired_difficulty and does not alter the session-wide level:
\* once the next topic is selected, state.difficulty is still the level
\* update_difficulty returned for the turn (which lies within 1 of the level
\* the turn began with).
C21_HintLeavesLevel ==
    [][SelectStep => state'.difficulty = state.difficulty]_vars

-----------------------------------------------------------------------------
(* Claims on the score history *)

\* the delta the forcing rule makes of a requested one, from the current
\* score and the one before it
PairDelta(prev, cur, requested) ==
    IF prev >= 3 /\ cur >= 3 THEN 1
    ELSE IF prev <= 1 /\ cur <= 1 THEN -1
    ELSE requested

\* C22: after n update_difficulty calls recent_scores holds the last
\* min(n, 3) scores in call order; the level returned on the first call of a
\* session is clamp(current + requested delta, 1, 5); on a later call it
\* depends on the scores only through the current one and the one before it;
\* and the call itself leaves state.difficulty as it was.
C22_RecentScores ==
    [][/\ LET n == Len(calls')
              kept == Min(n, RecentScoresKept)
          IN  /\ Len(state'.recent_scores) = kept
              /\ \A k \in 1..kept : state'.recent_scores[k] = calls'[n - kept + k]
       /\ pc = "scoring_dropped" => state'.difficulty = state.difficulty
       /\ (pc = "scoring_kept" /\ calls = <<>>)
             => state'.difficulty
                   = Max(1, Min(5, state.difficulty + analysis'.difficulty_delta))
       /\ (pc = "scoring_kept" /\ calls # <<>>)
             => state'.difficulty
                   = Max(1, Min(5, state.difficulty
                                     + PairDelta(calls[Len(calls)], analysis'.answer_score,
                                                 analysis'.difficulty_delta)))]_vars

\* four calls made, the first score dropped from the history, and the last
\* two scores on opposite sides of a first score that would have forced
C22_Witness ==
    /\ pc = "scoring_kept"
    /\ Len(calls) = 4
    /\ calls[1] = 4 /\ calls[2] = 0 /\ calls[3] = 2 /\ calls[4] = 4
    /\ state.recent_scores = <<0, 2, 4>>
    /\ analysis.difficulty_delta = -1

-----------------------------------------------------------------------------
(* Claims on the course of coverage *)

\* C23: over any sequence of record_progress calls on a plan, must_coverage
\* never decreases from one state to the next.
C23_MustCoverageMonotone ==
    [][RLe(tracker.must_coverage, tracker'.must_coverage)]_vars

-----------------------------------------------------------------------------
(* Claims on whole sessions *)

\* C24: in every run of the interview loop the record_progress calls number
\* at most the plan's max_total_turns, their turn_ids are 1, 2, ..., n, the
\* loop has ended once the max_total_turns-th answer is registered, and no
\* topic is asked more than max_total_turns times.
C24_BoundedSession ==
    LET asked == tracker.asked_questions
        limit == plan.rules.max_total_turns
    IN  /\ Len(asked) <= limit
        /\ \A i \in 1..Len(asked) : asked[i].turn_id = i
        /\ Len(asked) = limit => pc = "done"
        /\ \A id \in DOMAIN tracker.topic_stats : tracker.topic_stats[id].asked <= limit

\* a Junior session ended by the turn limit after its tenth answer, weak
\* answers among them
C24_Witness ==
    /\ pc = "done"
    /\ plan.grade = "junior"
    /\ stop_reason = "limit"
    /\ loop.stop_reason_msg = "limit"
    /\ Len(tracker.asked_questions) = 10
    /\ WeakAnswers(calls) # {}

\* C25: a message classify_intent classifies as STOP ends the loop there and
\* then, with no update_difficulty and no record_progress call for it,
\* whatever flags the message raises; a message it classifies as PROGRESS is
\* answered with the tracker, the level and the number of registered turns
\* left as they were, and the loop waits for the next message.
C25_StopAndProgress ==
    [][(pc = "await" /\ loop'.stop_reason_msg # "script")
          => /\ classify_intent(loop'.message) = "STOP"
                  => /\ pc' = "done"
                     /\ loop'.stop_reason_msg = "candidate"
                     /\ tracker' = tracker
                     /\ state'.recent_scores = state.recent_scores
                     /\ state'.difficulty = state.difficulty
             /\ classify_intent(loop'.message) = "PROGRESS"
                  => /\ pc' = "await"
                     /\ tracker' = tracker
                     /\ plan' = plan
                     /\ state'.difficulty = state.difficulty
                     /\ state'.recent_scores = state.recent_scores
                     /\ state'.history = state.history]_vars

-----------------------------------------------------------------------------
(* Claims on status and counts *)

\* status and count of every plan topic agree
StatusMatchesCount(p, tr) ==
    \A i \in 1..Len(p.topics) :
        LET t == p.topics[i]
            asked == StatsOf(tr, t.id).asked
        IN  /\ t.status = "pending" <=> asked = 0
            /\ t.status = "covered" => asked >= t.min_questions
            /\ t.status # "skipped"

\* C26: in every state reached from a fresh plan and tracker by
\* record_progress calls, a topic is pending exactly when it was never asked,
\* a covered topic was asked at least min_questions times, no topic is
\* skipped, and a status changes only from pending to in_progress, from
\* pending to covered or from in_progress to covered.
C26_StatusAndCount ==
    [][/\ StatusMatchesCount(plan, tracker)
       /\ StatusMatchesCount(plan', tracker')
       /\ \A i \in TopicIdx :
             \/ plan'.topics[i].status = plan.topics[i].status
             \/ <<plan.topics[i].status, plan'.topics[i].status>>
                   \in {<<"pending", "in_progress">>, <<"pending", "covered">>,
                        <<"in_progress", "covered">>}]_vars

\* a topic covered by its first answer beside one in progress after a weak
\* first answer
C26_Witness ==
    \E i, j \in TopicIdx :
        /\ plan.topics[i].status = "covered"
        /\ StatsAt(i).asked = 1
        /\ plan.topics[j].status = "in_progress"
        /\ StatsAt(j).asked = 1
        /\ RLt(StatsAt(j).avg_score, tracker.coverage_threshold)

\* C27 as stated: in every state reached by record_progress calls a covered
\* topic has coverage_score >= coverage_threshold (and avg_score likewise),
\* also after further answers on the covered topic.
C27_CoveredAboveThreshold ==
    \A i \in TopicIdx :
        plan.topics[i].status = "covered"
           => /\ RGe(plan.topics[i].coverage_score, tracker.coverage_threshold)
              /\ RGe(StatsAt(i).avg_score, tracker.coverage_threshold)

\* C27 amended: a topic has coverage_score >= coverage_threshold in the state
\* left by the call that covers it, and the coverage_score of a covered topic
\* is its avg_score; after further answers the topic stays covered whatever
\* its coverage_score has become.
C27_CoveredWhenReached ==
    [][\A i \in TopicIdx :
          /\ (plan.topics[i].status # "covered" /\ plan'.topics[i].status = "covered")
                => RGe(plan'.topics[i].coverage_score, tracker'.coverage_threshold)
          /\ plan'.topics[i].status = "covered"
                => plan'.topics[i].coverage_score = StatsAt(i)'.avg_score
          /\ plan.topics[i].status = "covered" => plan'.topics[i].status = "covered"]_vars

\* a topic covered by two answers and asked once more, its coverage_score
\* now below the threshold
C27_Witness ==
    \E i \in TopicIdx :
        /\ plan.topics[i].status = "covered"
        /\ StatsAt(i).asked = plan.topics[i].min_questions + 1
        /\ StatsAt(i).last_turn = Len(tracker.asked_questions)
        /\ RLt(plan.topics[i].coverage_score, tracker.coverage_threshold)
        /\ plan.topics[i].coverage_score = StatsAt(i).avg_score

\* C28: on a Junior, Middle or Senior plan, after any record_progress calls
\* numbering at most max_total_turns, must_coverage is strictly below
\* target_must_coverage; so the stop evaluator never gives the coverage
\* reason in a session on such a plan, and a session ends by the turn limit
\* unless the candidate stops it or stops answering.
C28_TargetOutOfReach ==
    plan.grade \in {"junior", "middle", "senior"}
       => /\ RLt(tracker.must_coverage, plan.rules.target_must_coverage)
          /\ stop_reason # "coverage"
          /\ pc = "done" => loop.stop_reason_msg \in {"limit", "candidate", "script"}

\* the Middle plan after 14 full answers, seven must topics covered out of nine
C28_Witness ==
    /\ plan.grade = "middle"
    /\ Len(tracker.asked_questions) = plan.rules.max_total_turns
    /\ tracker.must_coverage = Rat(7, 9)
    /\ Cardinality({i \in TopicIdx : plan.topics[i].status = "covered"}) = 7

\* priority of the plan topic with the given id
PriorityOf(id) ==
    LET i == CHOOSE k \in TopicIdx : plan.topics[k].id = id
    IN  plan.topics[i].priority

\* C29: a selection that is not the turn-1 start bias is a nice topic only if
\* every must topic of the plan is on cooldown at that turn; and in a session
\* on a plan from build_topic_plan every topic asked and every topic selected
\* is a must topic and nice_coverage stays 0.
C29_NiceOnlyAfterMust ==
    /\ (selection # NoSelection /\ selection.reason # "start bias"
           /\ selection.topic.priority = "nice")
          => \A i \in TopicIdx :
                plan.topics[i].priority = "must" => OnCooldownAt(i, current_turn)
    /\ pc \in {"start", "await", "answering", "done"}
          => /\ \A k \in 1..Len(tracker.asked_questions) :
                   PriorityOf(tracker.asked_questions[k].topic_id) = "must"
             /\ selection # NoSelection => selection.topic.priority = "must"
             /\ tracker.nice_coverage = RInt(0)

\* the selector hands out a nice topic at a turn where the plan's must topic
\* is covered and on cooldown
C29_Witness ==
    /\ pc = "selected"
    /\ selection.reason # "start bias"
    /\ selection.topic.priority = "nice"
    /\ \E i \in TopicIdx :
          /\ plan.topics[i].priority = "must"
          /\ plan.topics[i].status = "covered"
          /\ OnCooldownAt(i, current_turn)

-----------------------------------------------------------------------------
(* Claims on what the operations leave alone *)

\* what of a plan is fixed when it is built
PlanShape(p) ==
    [rules |-> p.rules,
     topics |-> [i \in 1..Len(p.topics) |->
                    [id |-> p.topics[i].id, priority |-> p.topics[i].priority,
                     min_questions |-> p.topics[i].min_questions]]]

\* C30: a record_progress call on topic A leaves the stats, coverage_score
\* and status of every other topic as they were, appends one entry to
\* asked_questions and keeps the earlier ones, and keeps the plan's rules,
\* topic order, priorities and min_questions; select_next_topic (with the
\* suggest_difficulty call inside it) and the stop evaluator leave plan and
\* tracker as they were.
C30_Frame ==
    [][/\ PlanShape(plan') = PlanShape(plan)
       /\ IF tracker'.asked_questions # tracker.asked_questions
          THEN LET n == Len(tracker.asked_questions)
                   A == tracker'.asked_questions[n + 1].topic_id
               IN  /\ Len(tracker'.asked_questions) = n + 1
                   /\ SubSeq(tracker'.asked_questions, 1, n) = tracker.asked_questions
                   /\ DOMAIN tracker'.topic_stats = DOMAIN tracker.topic_stats \cup {A}
                   /\ \A id \in DOMAIN tracker.topic_stats \ {A} :
                         tracker'.topic_stats[id] = tracker.topic_stats[id]
                   /\ \A i \in TopicIdx :
                         plan.topics[i].id # A => plan'.topics[i] = plan.topics[i]
          ELSE /\ plan' = plan
               /\ tracker' = tracker]_vars

\* an answer just recorded on one topic while another topic, asked earlier,
\* is covered, followed by a query of the selector
C30_Witness ==
    /\ pc = "selected"
    /\ Len(tracker.asked_questions) >= 3
    /\ \E i, j \in TopicIdx :
          /\ plan.topics[j].id = tracker.asked_questions[Len(tracker.asked_questions)].topic_id
          /\ i # j
          /\ plan.topics[i].status = "covered"
          /\ StatsAt(i).last_turn = 2
          /\ StatsAt(j).asked = 1

====
